---- MODULE Spec2Model ----
(***************************************************************************)
(* Constant-product AMM instruction processor (pinocchio_amm and its       *)
(* twin blueshift_native_amm): the pool record store (state.rs), the four  *)
(* processors (instructions/*.rs) and the entrypoint (lib.rs).             *)
(*                                                                         *)
(* The token program, the system program, the clock and the curve crate    *)
(* are collaborators: the primitives are modelled by the checks the        *)
(* processors rely on (balance, owner, signer), and the curve crate's       *)
(* results are left unconstrained (any amounts, or an error).              *)
(***************************************************************************)
EXTENDS Integers, Sequences, FiniteSets, TLC

----------------------------------------------------------------------------
\* Bounds of the model.
MaxAmt == 2        \* largest amount in a request or returned by the curve
MaxBal == 2        \* the user's initial balance of X and of Y
MaxSupply == 2     \* cap on the LP supply
MaxClock == 1      \* the clock runs 0..MaxClock

----------------------------------------------------------------------------
\* Addresses and fixed identities.
Key(name) == <<"key", name>>
ProgramID == Key("22222222222222222222222222222222222222222222")
TokenProgramID == Key("TokenkegQfeZyiNwAJbNbGKPFXCWuBvf9Ss623VQ5DA")
SystemProgramID == Key("11111111111111111111111111111111")
DefaultAddress == SystemProgramID   \* Address::default(): 32 zero bytes
NoAddress == Key("None")            \* Option::None of an address
User == Key("user")
Admin == Key("admin")
MintX == Key("mint_x")
MintY == Key("mint_y")

\* Little-endian byte encodings (to_le_bytes / from_le_bytes).
RECURSIVE to_le_bytes(_, _)
to_le_bytes(n, w) ==
  IF w = 0 THEN <<>> ELSE <<n % 256>> \o to_le_bytes(n \div 256, w - 1)

RECURSIVE from_le_bytes(_)
from_le_bytes(b) ==
  IF b = <<>> THEN 0 ELSE Head(b) + 256 * from_le_bytes(Tail(b))

\* Program-derived address of a seed tuple (the external derive(seeds,
\* program_id)): injective in the tuple.
DeriveAddress(seeds, program) == <<"pda", seeds, program>>

\* The values a client derives for the pool of (Pool.seed, MintX, MintY).
Pool == [seed |-> 7, config_bump |-> <<254>>, lp_bump |-> <<253>>]
ConfigSeeds(seedBytes, mx, my, bump) == <<"config", seedBytes, mx, my, bump>>
ConfigAddress ==
  DeriveAddress(ConfigSeeds(to_le_bytes(Pool.seed, 8), MintX, MintY, Pool.config_bump),
                ProgramID)
MintLpSeeds(cfgAddr, bump) == <<"mint_lp", cfgAddr, bump>>
MintLpAddress == DeriveAddress(MintLpSeeds(ConfigAddress, Pool.lp_bump), ProgramID)

----------------------------------------------------------------------------
\* state.rs: the pool record.
Uninitialized == 0
Initialized == 1
Disabled == 2
WithdrawOnly == 3

\* size_of::<Config>() of the packed struct: 1 + 8 + 32 + 32 + 32 + 2 + 1.
ConfigLEN == 1 + 8 + 32 + 32 + 32 + 2 + 1
MintLEN == 82

\* The bytes of a freshly allocated (zeroed) record.
ZeroConfig ==
  [state |-> 0, seed |-> to_le_bytes(0, 8), authority |-> DefaultAddress,
   mint_x |-> DefaultAddress, mint_y |-> DefaultAddress,
   fee |-> to_le_bytes(0, 2), config_bump |-> <<0>>]

Ok == [ok |-> TRUE, err |-> "", at |-> ""]
Err(e, where) == [ok |-> FALSE, err |-> e, at |-> where]

\* Mutant: load makes the length check only.
load_length_only(acct) ==
  IF acct.data_len # ConfigLEN THEN Err("InvalidAccountData", "load") ELSE Ok

\* Config::load / load_mut: length check, then owner check.
load(acct) ==
  IF acct.data_len # ConfigLEN THEN Err("InvalidAccountData", "load")
  ELSE IF acct.owner # ProgramID THEN Err("InvalidAccountOwner", "load")
  ELSE Ok

\* Config::load_mut_unchecked: length check only.
load_mut_unchecked(acct) ==
  IF acct.data_len # ConfigLEN THEN Err("InvalidAccountData", "load") ELSE Ok

\* Getters.
state(cfg) == cfg.state
seed(cfg) == from_le_bytes(cfg.seed)
fee(cfg) == from_le_bytes(cfg.fee)
config_bump(cfg) == cfg.config_bump

\* Mutant: set_state stores whatever byte it is given.
set_state_any(cfg, v) == [res |-> Ok, cfg |-> [cfg EXCEPT !.state = v]]

\* Config::set_state: returns the result and the record afterwards.
set_state(cfg, v) ==
  IF v >= WithdrawOnly
  THEN [res |-> Err("InvalidAccountData", "set_state"), cfg |-> cfg]
  ELSE [res |-> Ok, cfg |-> [cfg EXCEPT !.state = v]]

\* Mutant: the fee bound is off by one (10000 accepted).
set_fee_gt(cfg, v) ==
  IF v > 10000
  THEN [res |-> Err("InvalidAccountData", "set_fee"), cfg |-> cfg]
  ELSE [res |-> Ok, cfg |-> [cfg EXCEPT !.fee = to_le_bytes(v, 2)]]

\* Config::set_fee.
set_fee(cfg, v) ==
  IF v >= 10000
  THEN [res |-> Err("InvalidAccountData", "set_fee"), cfg |-> cfg]
  ELSE [res |-> Ok, cfg |-> [cfg EXCEPT !.fee = to_le_bytes(v, 2)]]

\* Mutant: set_inner leaves out set_config_bump.
set_inner_no_bump(cfg, sd, authority, mx, my, f, bump) ==
  LET s1 == set_state(cfg, Initialized) IN
  IF ~s1.res.ok THEN s1
  ELSE
    LET c2 == [s1.cfg EXCEPT !.seed = to_le_bytes(sd, 8),
                             !.authority = authority,
                             !.mint_x = mx, !.mint_y = my]
    IN set_fee(c2, f)

\* Config::set_inner: the setters in order, stopping at the first error
\* (what was written before it stays written in the account data).
set_inner(cfg, sd, authority, mx, my, f, bump) ==
  LET s1 == set_state(cfg, Initialized) IN
  IF ~s1.res.ok THEN s1
  ELSE
    LET c2 == [s1.cfg EXCEPT !.seed = to_le_bytes(sd, 8),
                             !.authority = authority,
                             !.mint_x = mx, !.mint_y = my]
        s3 == set_fee(c2, f)
    IN IF ~s3.res.ok THEN s3
       ELSE [res |-> Ok, cfg |-> [s3.cfg EXCEPT !.config_bump = bump]]

\* Config::has_authority: None for the all-zero address.
has_authority(cfg) ==
  IF cfg.authority = DefaultAddress THEN NoAddress ELSE cfg.authority

----------------------------------------------------------------------------
\* The accounts.
VARIABLES
  config,    \* the pool-config account: [data_len, owner, data]
  mint_lp,   \* the LP mint account
  mint_alt,  \* a mint account the user created and is the authority of
  tok,       \* token account -> amount
  clock,     \* Clock::get().unix_timestamp
  last       \* the last invocation: request, result, primitives invoked

vars == <<config, mint_lp, mint_alt, tok, clock, last>>

MintAlt == Key("mint_alt")

\* The pool's vaults, the user's accounts, a second account of each asset
\* that the user owns (alt_x, alt_y), and the user's account of the mint
\* the user created (alt_lp).
TokenAccounts ==
  {"vault_x", "vault_y", "user_x", "user_y", "user_lp", "alt_x", "alt_y",
   "alt_lp"}

TokMint(a) ==
  CASE a \in {"vault_x", "user_x", "alt_x"} -> MintX
    [] a \in {"vault_y", "user_y", "alt_y"} -> MintY
    [] a = "alt_lp" -> MintAlt
    [] OTHER -> MintLpAddress

TokOwner(a) ==
  IF a \in {"vault_x", "vault_y"} THEN ConfigAddress ELSE User

World ==
  [config |-> config, mint_lp |-> mint_lp, mint_alt |-> mint_alt, tok |-> tok]

\* The address of the mint account in a variable.
MintAddress(mint) == IF mint = "mint_lp" THEN MintLpAddress ELSE MintAlt

\* An account that was never created: no data, owned by the system program.
NoConfigAccount ==
  [data_len |-> 0, owner |-> SystemProgramID, data |-> ZeroConfig]
NoMintAccount ==
  [data_len |-> 0, owner |-> SystemProgramID, is_initialized |-> FALSE,
   supply |-> 0, decimals |-> 0, mint_authority |-> NoAddress,
   freeze_authority |-> NoAddress]

\* A mint the user created with the token program, with the user as its
\* mint authority; alt_lp holds its whole supply.
CallerMint(supply) ==
  [data_len |-> MintLEN, owner |-> TokenProgramID, is_initialized |-> TRUE,
   supply |-> supply, decimals |-> 6, mint_authority |-> User,
   freeze_authority |-> NoAddress]

----------------------------------------------------------------------------
\* The collaborators' primitives. Each returns whether it succeeded, the
\* world afterwards (unchanged when it failed) and the record of the call.
Call(prim, from, to, amount, ok) ==
  [prim |-> prim, from |-> from, to |-> to, amount |-> amount, ok |-> ok]

\* The signers of a CPI: the transaction's signer, plus the addresses the
\* runtime derives from the seed tuples passed to invoke_signed.
Signers(seedTuples) ==
  {User} \cup {DeriveAddress(sd, ProgramID) : sd \in seedTuples}

\* Mutant: Transfer does not require the source to hold the amount.
Transfer_unfunded(w, from, to, authority, amount, signers) ==
  LET ok == /\ TokMint(from) = TokMint(to)
            /\ authority = TokOwner(from)
            /\ authority \in signers
  IN [ok |-> ok,
      w |-> IF ok
            THEN [w EXCEPT !.tok = [@ EXCEPT ![from] = @ - amount,
                                             ![to] = w.tok[to] + amount]]
            ELSE w,
      call |-> Call("Transfer", from, to, amount, ok)]

\* pinocchio_token Transfer.
Transfer(w, from, to, authority, amount, signers) ==
  LET ok == /\ w.tok[from] >= amount
            /\ TokMint(from) = TokMint(to)
            /\ authority = TokOwner(from)
            /\ authority \in signers
  IN [ok |-> ok,
      w |-> IF ok
            THEN [w EXCEPT !.tok = [@ EXCEPT ![from] = @ - amount,
                                             ![to] = w.tok[to] + amount]]
            ELSE w,
      call |-> Call("Transfer", from, to, amount, ok)]

\* pinocchio_token MintTo.
MintTo(w, account, mint_authority, amount, signers) ==
  LET ok == /\ w.mint_lp.is_initialized
            /\ TokMint(account) = MintLpAddress
            /\ w.mint_lp.mint_authority = mint_authority
            /\ mint_authority \in signers
  IN [ok |-> ok,
      w |-> IF ok
            THEN [w EXCEPT !.mint_lp.supply = @ + amount,
                           !.tok[account] = @ + amount]
            ELSE w,
      call |-> Call("MintTo", "mint_lp", account, amount, ok)]

\* pinocchio_token Burn, of the mint account in the mint position.
Burn_of(w, mint, account, authority, amount, signers) ==
  LET ok == /\ w[mint].is_initialized
            /\ TokMint(account) = MintAddress(mint)
            /\ w.tok[account] >= amount
            /\ authority = TokOwner(account)
            /\ authority \in signers
  IN [ok |-> ok,
      w |-> IF ok
            THEN [w EXCEPT ![mint].supply = @ - amount,
                           !.tok[account] = @ - amount]
            ELSE w,
      call |-> Call("Burn", account, mint, amount, ok)]

Burn(w, account, authority, amount, signers) ==
  Burn_of(w, "mint_lp", account, authority, amount, signers)

\* Mutant: CreateAccount does not refuse an address already in use.
CreateConfigAccount_overwrite(w, space, owner, signers) ==
  LET ok == ConfigAddress \in signers
  IN [ok |-> ok,
      w |-> IF ok
            THEN [w EXCEPT !.config = [data_len |-> space, owner |-> owner,
                                       data |-> ZeroConfig]]
            ELSE w,
      call |-> Call("CreateAccount", User, "config", space, ok)]

\* pinocchio_system CreateAccount of the pool-config account.
CreateConfigAccount(w, space, owner, signers) ==
  LET ok == /\ w.config.data_len = 0
            /\ w.config.owner = SystemProgramID
            /\ ConfigAddress \in signers
  IN [ok |-> ok,
      w |-> IF ok
            THEN [w EXCEPT !.config = [data_len |-> space, owner |-> owner,
                                       data |-> ZeroConfig]]
            ELSE w,
      call |-> Call("CreateAccount", User, "config", space, ok)]

\* pinocchio_system CreateAccount of the LP mint account.
CreateMintAccount(w, space, owner, signers) ==
  LET ok == /\ w.mint_lp.data_len = 0
            /\ w.mint_lp.owner = SystemProgramID
            /\ MintLpAddress \in signers
  IN [ok |-> ok,
      w |-> IF ok
            THEN [w EXCEPT !.mint_lp = [NoMintAccount EXCEPT
                                          !.data_len = space, !.owner = owner]]
            ELSE w,
      call |-> Call("CreateAccount", User, "mint_lp", space, ok)]

\* pinocchio_token InitializeMint2.
InitializeMint2(w, decimals, mint_authority, freeze_authority) ==
  LET ok == /\ w.mint_lp.data_len = MintLEN
            /\ w.mint_lp.owner = TokenProgramID
            /\ ~w.mint_lp.is_initialized
  IN [ok |-> ok,
      w |-> IF ok
            THEN [w EXCEPT !.mint_lp.is_initialized = TRUE,
                           !.mint_lp.decimals = decimals,
                           !.mint_lp.mint_authority = mint_authority,
                           !.mint_lp.freeze_authority = freeze_authority]
            ELSE w,
      call |-> Call("InitializeMint2", "", "mint_lp", decimals, ok)]

\* Mint::from_account_view_unchecked: a length check, no owner check.
Mint_from_account_view_unchecked(acct) ==
  IF acct.data_len # MintLEN THEN Err("InvalidAccountData", "mint_lp") ELSE Ok

\* Mutant: the two mints are passed in the other order.
RecordSeeds_swapped(cfg) ==
  ConfigSeeds(to_le_bytes(seed(cfg), 8), cfg.mint_y, cfg.mint_x, config_bump(cfg))

\* The signer seed tuple the processors rebuild from the pool record.
RecordSeeds(cfg) ==
  ConfigSeeds(to_le_bytes(seed(cfg), 8), cfg.mint_x, cfg.mint_y, config_bump(cfg))

\* The outcome of one processor run: its result, the world as its
\* primitives left it, the primitives invoked, and the curve call made.
Exec(res, w, calls, curve) ==
  [res |-> res, w |-> w, calls |-> calls, curve |-> curve]

NoCurve == [called |-> FALSE]
PrimitiveError(where) == Err("PrimitiveError", where)

----------------------------------------------------------------------------
\* The curve crate (constant_product_curve), an external collaborator: the
\* processors pass its result through, so its outcome is an input of the
\* run. CurveCall records the arguments it was called with.
CurveCall(args, outcome) == [called |-> TRUE, args |-> args, out |-> outcome]

----------------------------------------------------------------------------
\* instructions/deposit.rs
\* Mutant: a request expiring at the current time is rejected too.
Deposit_expired_at(now, data) == now >= data.expiration

Deposit_expired(now, data) == now > data.expiration

Deposit_state_ok(cfg) == state(cfg) = 1

\* Mutant: on an empty pool the LP amount is collected on both sides.
Deposit_amounts_lp(vault_x, vault_y, supply, data, cv) ==
  IF supply = 0
  THEN [ok |-> TRUE, x |-> data.amount, y |-> data.amount, curve |-> NoCurve]
  ELSE [ok |-> cv.ok, x |-> cv.x, y |-> cv.y,
        curve |-> CurveCall(<<vault_x, vault_y, supply, data.amount, 6>>, cv)]

\* Step 4: the amounts to collect, and the curve call made to get them.
Deposit_amounts(vault_x, vault_y, supply, data, cv) ==
  IF supply = 0
  THEN [ok |-> TRUE, x |-> data.max_x, y |-> data.max_y, curve |-> NoCurve]
  ELSE [ok |-> cv.ok, x |-> cv.x, y |-> cv.y,
        curve |-> CurveCall(<<vault_x, vault_y, supply, data.amount, 6>>, cv)]

\* Mutant: the guard rejects only when both bounds are exceeded.
Deposit_slippage_both(x, y, data) == x > data.max_x /\ y > data.max_y

\* Step 5: the slippage guard (TRUE rejects).
Deposit_slippage(x, y, data) == x > data.max_x \/ y > data.max_y

\* Mutant: the record is loaded and its lifecycle state tested before the
\* expiration guard.
Deposit_process_state_first(w, now, data, cv) ==
  LET ld == load(w.config)
      cfg == w.config.data
      ml == Mint_from_account_view_unchecked(w.mint_lp)
      am == Deposit_amounts(w.tok["vault_x"], w.tok["vault_y"],
                            w.mint_lp.supply, data, cv)
      t1 == Transfer(w, "user_x", "vault_x", User, am.x, Signers({}))
      t2 == Transfer(t1.w, "user_y", "vault_y", User, am.y, Signers({}))
      m3 == MintTo(t2.w, "user_lp", ConfigAddress, data.amount,
                   Signers({RecordSeeds(cfg)}))
  IN
  IF ~ld.ok THEN Exec(ld, w, <<>>, NoCurve)
  ELSE IF ~Deposit_state_ok(cfg)
    THEN Exec(Err("InvalidAccountData", "lifecycle"), w, <<>>, NoCurve)
  ELSE IF Deposit_expired(now, data)
    THEN Exec(Err("InvalidArgument", "expiration"), w, <<>>, NoCurve)
  ELSE IF ~ml.ok THEN Exec(ml, w, <<>>, NoCurve)
  ELSE IF ~am.ok
    THEN Exec(Err("ArithmeticOverflow", "curve"), w, <<>>, am.curve)
  ELSE IF Deposit_slippage(am.x, am.y, data)
    THEN Exec(Err("InvalidArgument", "slippage"), w, <<>>, am.curve)
  ELSE IF ~t1.ok
    THEN Exec(PrimitiveError("transfer_x"), t1.w, <<t1.call>>, am.curve)
  ELSE IF ~t2.ok
    THEN Exec(PrimitiveError("transfer_y"), t2.w, <<t1.call, t2.call>>, am.curve)
  ELSE IF ~m3.ok
    THEN Exec(PrimitiveError("mint_to"), m3.w, <<t1.call, t2.call, m3.call>>,
              am.curve)
  ELSE Exec(Ok, m3.w, <<t1.call, t2.call, m3.call>>, am.curve)

\* Mutant: the LP is minted first, the two transfers follow.
Deposit_process_mint_first(w, now, data, cv) ==
  LET ld == load(w.config)
      cfg == w.config.data
      ml == Mint_from_account_view_unchecked(w.mint_lp)
      am == Deposit_amounts(w.tok["vault_x"], w.tok["vault_y"],
                            w.mint_lp.supply, data, cv)
      m1 == MintTo(w, "user_lp", ConfigAddress, data.amount,
                   Signers({RecordSeeds(cfg)}))
      t2 == Transfer(m1.w, "user_x", "vault_x", User, am.x, Signers({}))
      t3 == Transfer(t2.w, "user_y", "vault_y", User, am.y, Signers({}))
  IN
  IF Deposit_expired(now, data)
    THEN Exec(Err("InvalidArgument", "expiration"), w, <<>>, NoCurve)
  ELSE IF ~ld.ok THEN Exec(ld, w, <<>>, NoCurve)
  ELSE IF ~Deposit_state_ok(cfg)
    THEN Exec(Err("InvalidAccountData", "lifecycle"), w, <<>>, NoCurve)
  ELSE IF ~ml.ok THEN Exec(ml, w, <<>>, NoCurve)
  ELSE IF ~am.ok
    THEN Exec(Err("ArithmeticOverflow", "curve"), w, <<>>, am.curve)
  ELSE IF Deposit_slippage(am.x, am.y, data)
    THEN Exec(Err("InvalidArgument", "slippage"), w, <<>>, am.curve)
  ELSE IF ~m1.ok
    THEN Exec(PrimitiveError("mint_to"), m1.w, <<m1.call>>, am.curve)
  ELSE IF ~t2.ok
    THEN Exec(PrimitiveError("transfer_x"), t2.w, <<m1.call, t2.call>>, am.curve)
  ELSE IF ~t3.ok
    THEN Exec(PrimitiveError("transfer_y"), t3.w, <<m1.call, t2.call, t3.call>>,
              am.curve)
  ELSE Exec(Ok, t3.w, <<m1.call, t2.call, t3.call>>, am.curve)

\* Deposit::process on the accounts the caller supplies in the vault_x and
\* vault_y positions.
Deposit_process_on(w, now, data, cv, vault_x, vault_y) ==
  LET ld == load(w.config)
      cfg == w.config.data
      ml == Mint_from_account_view_unchecked(w.mint_lp)
      am == Deposit_amounts(w.tok[vault_x], w.tok[vault_y],
                            w.mint_lp.supply, data, cv)
      t1 == Transfer(w, "user_x", vault_x, User, am.x, Signers({}))
      t2 == Transfer(t1.w, "user_y", vault_y, User, am.y, Signers({}))
      m3 == MintTo(t2.w, "user_lp", ConfigAddress, data.amount,
                   Signers({RecordSeeds(cfg)}))
  IN
  IF Deposit_expired(now, data)
    THEN Exec(Err("InvalidArgument", "expiration"), w, <<>>, NoCurve)
  ELSE IF ~ld.ok THEN Exec(ld, w, <<>>, NoCurve)
  ELSE IF ~Deposit_state_ok(cfg)
    THEN Exec(Err("InvalidAccountData", "lifecycle"), w, <<>>, NoCurve)
  ELSE IF ~ml.ok THEN Exec(ml, w, <<>>, NoCurve)
  ELSE IF ~am.ok
    THEN Exec(Err("ArithmeticOverflow", "curve"), w, <<>>, am.curve)
  ELSE IF Deposit_slippage(am.x, am.y, data)
    THEN Exec(Err("InvalidArgument", "slippage"), w, <<>>, am.curve)
  ELSE IF ~t1.ok
    THEN Exec(PrimitiveError("transfer_x"), t1.w, <<t1.call>>, am.curve)
  ELSE IF ~t2.ok
    THEN Exec(PrimitiveError("transfer_y"), t2.w, <<t1.call, t2.call>>, am.curve)
  ELSE IF ~m3.ok
    THEN Exec(PrimitiveError("mint_to"), m3.w, <<t1.call, t2.call, m3.call>>,
              am.curve)
  ELSE Exec(Ok, m3.w, <<t1.call, t2.call, m3.call>>, am.curve)

\* Deposit::process called with the pool's own vaults.
Deposit_process(w, now, data, cv) ==
  Deposit_process_on(w, now, data, cv, "vault_x", "vault_y")

----------------------------------------------------------------------------
\* instructions/withdraw.rs
Withdraw_expired(now, data) == now > data.expiration

\* Mutant: Withdraw takes Deposit's guard and requires Initialized.
Withdraw_state_initialized(cfg) == state(cfg) = 1

Withdraw_state_ok(cfg) == ~(state(cfg) = 2)

\* Mutant: the full-supply case goes through the curve like any other.
Withdraw_amounts_curve(vault_x, vault_y, supply, data, cv) ==
  [ok |-> cv.ok, x |-> cv.x, y |-> cv.y,
   curve |-> CurveCall(<<vault_x, vault_y, supply, data.amount, 6>>, cv)]

\* Step 4: the amounts to pay out.
Withdraw_amounts(vault_x, vault_y, supply, data, cv) ==
  IF supply = data.amount
  THEN [ok |-> TRUE, x |-> vault_x, y |-> vault_y, curve |-> NoCurve]
  ELSE [ok |-> cv.ok, x |-> cv.x, y |-> cv.y,
        curve |-> CurveCall(<<vault_x, vault_y, supply, data.amount, 6>>, cv)]

\* Mutant: the guard rejects only when both amounts are below their bounds.
Withdraw_slippage_both(x, y, data) == x < data.min_x /\ y < data.min_y

\* Step 5: the slippage guard (TRUE rejects).
Withdraw_slippage(x, y, data) == x < data.min_x \/ y < data.min_y

\* Mutant: the vaults pay out first, the burn follows.
Withdraw_process_payout_first(w, now, data, cv) ==
  LET ld == load(w.config)
      cfg == w.config.data
      ml == Mint_from_account_view_unchecked(w.mint_lp)
      am == Withdraw_amounts(w.tok["vault_x"], w.tok["vault_y"],
                             w.mint_lp.supply, data, cv)
      sg == Signers({RecordSeeds(cfg)})
      t1 == Transfer(w, "vault_x", "user_x", ConfigAddress, am.x, sg)
      t2 == Transfer(t1.w, "vault_y", "user_y", ConfigAddress, am.y, sg)
      b3 == Burn(t2.w, "user_lp", User, data.amount, Signers({}))
  IN
  IF Withdraw_expired(now, data)
    THEN Exec(Err("InvalidArgument", "expiration"), w, <<>>, NoCurve)
  ELSE IF ~ld.ok THEN Exec(ld, w, <<>>, NoCurve)
  ELSE IF ~Withdraw_state_ok(cfg)
    THEN Exec(Err("InvalidAccountData", "lifecycle"), w, <<>>, NoCurve)
  ELSE IF ~ml.ok THEN Exec(ml, w, <<>>, NoCurve)
  ELSE IF ~am.ok
    THEN Exec(Err("ArithmeticOverflow", "curve"), w, <<>>, am.curve)
  ELSE IF Withdraw_slippage(am.x, am.y, data)
    THEN Exec(Err("InvalidArgument", "slippage"), w, <<>>, am.curve)
  ELSE IF ~t1.ok
    THEN Exec(PrimitiveError("transfer_x"), t1.w, <<t1.call>>, am.curve)
  ELSE IF ~t2.ok
    THEN Exec(PrimitiveError("transfer_y"), t2.w, <<t1.call, t2.call>>, am.curve)
  ELSE IF ~b3.ok
    THEN Exec(PrimitiveError("burn"), b3.w, <<t1.call, t2.call, b3.call>>,
              am.curve)
  ELSE Exec(Ok, b3.w, <<t1.call, t2.call, b3.call>>, am.curve)

\* Withdraw::process, with the accounts the request carries in the
\* mint_lp and user_lp_ata positions.
Withdraw_process_on(w, now, data, cv, mint, user_lp) ==
  LET ld == load(w.config)
      cfg == w.config.data
      ml == Mint_from_account_view_unchecked(w[mint])
      am == Withdraw_amounts(w.tok["vault_x"], w.tok["vault_y"],
                             w[mint].supply, data, cv)
      b1 == Burn_of(w, mint, user_lp, User, data.amount, Signers({}))
      sg == Signers({RecordSeeds(cfg)})
      t2 == Transfer(b1.w, "vault_x", "user_x", ConfigAddress, am.x, sg)
      t3 == Transfer(t2.w, "vault_y", "user_y", ConfigAddress, am.y, sg)
  IN
  IF Withdraw_expired(now, data)
    THEN Exec(Err("InvalidArgument", "expiration"), w, <<>>, NoCurve)
  ELSE IF ~ld.ok THEN Exec(ld, w, <<>>, NoCurve)
  ELSE IF ~Withdraw_state_ok(cfg)
    THEN Exec(Err("InvalidAccountData", "lifecycle"), w, <<>>, NoCurve)
  ELSE IF ~ml.ok THEN Exec(ml, w, <<>>, NoCurve)
  ELSE IF ~am.ok
    THEN Exec(Err("ArithmeticOverflow", "curve"), w, <<>>, am.curve)
  ELSE IF Withdraw_slippage(am.x, am.y, data)
    THEN Exec(Err("InvalidArgument", "slippage"), w, <<>>, am.curve)
  ELSE IF ~b1.ok
    THEN Exec(PrimitiveError("burn"), b1.w, <<b1.call>>, am.curve)
  ELSE IF ~t2.ok
    THEN Exec(PrimitiveError("transfer_x"), t2.w, <<b1.call, t2.call>>, am.curve)
  ELSE IF ~t3.ok
    THEN Exec(PrimitiveError("transfer_y"), t3.w, <<b1.call, t2.call, t3.call>>,
              am.curve)
  ELSE Exec(Ok, t3.w, <<b1.call, t2.call, t3.call>>, am.curve)

\* The request carries the pool's LP mint and the user's account of it.
Withdraw_process(w, now, data, cv) ==
  Withdraw_process_on(w, now, data, cv, "mint_lp", "user_lp")

----------------------------------------------------------------------------
\* instructions/swap.rs
Swap_expired(now, data) == now > data.expiration

\* Mutant: Swap takes Withdraw's guard and rejects only Disabled.
Swap_state_not_disabled(cfg) == ~(state(cfg) = 2)

Swap_state_ok(cfg) == state(cfg) = 1

\* Step 3: ConstantProduct::init(vault_x, vault_y, vault_x, fee, None), then
\* curve.swap(pair, amount, min).
Swap_curve(vault_x, vault_y, cfg, data, cv) ==
  [init_ok |-> cv.init_ok, ok |-> cv.init_ok /\ cv.ok,
   deposit |-> cv.deposit, withdraw |-> cv.withdraw,
   curve |-> CurveCall(<<vault_x, vault_y, vault_x, fee(cfg),
                         IF data.is_x THEN "X" ELSE "Y", data.amount, data.min>>,
                       cv)]

\* Mutant: a successful Swap clears the fee in the pool record.
Swap_process_resets_fee(w, now, data, cv) ==
  LET ld == load(w.config)
      cfg == w.config.data
      sr == Swap_curve(w.tok["vault_x"], w.tok["vault_y"], cfg, data, cv)
      sg == Signers({RecordSeeds(cfg)})
      user_in == IF data.is_x THEN "user_x" ELSE "user_y"
      vault_in == IF data.is_x THEN "vault_x" ELSE "vault_y"
      vault_out == IF data.is_x THEN "vault_y" ELSE "vault_x"
      user_out == IF data.is_x THEN "user_y" ELSE "user_x"
      t1 == Transfer(w, user_in, vault_in, User, sr.deposit, Signers({}))
      t2 == Transfer(t1.w, vault_out, user_out, ConfigAddress, sr.withdraw, sg)
  IN
  IF Swap_expired(now, data)
    THEN Exec(Err("InvalidArgument", "expiration"), w, <<>>, NoCurve)
  ELSE IF ~ld.ok THEN Exec(ld, w, <<>>, NoCurve)
  ELSE IF ~Swap_state_ok(cfg)
    THEN Exec(Err("InvalidAccountData", "lifecycle"), w, <<>>, NoCurve)
  ELSE IF ~sr.init_ok
    THEN Exec(Err("ArithmeticOverflow", "curve"), w, <<>>, sr.curve)
  ELSE IF ~sr.ok
    THEN Exec(Err("InvalidArgument", "curve"), w, <<>>, sr.curve)
  ELSE IF ~t1.ok
    THEN Exec(PrimitiveError("transfer_in"), t1.w, <<t1.call>>, sr.curve)
  ELSE IF ~t2.ok
    THEN Exec(PrimitiveError("transfer_out"), t2.w, <<t1.call, t2.call>>, sr.curve)
  ELSE Exec(Ok, [t2.w EXCEPT !.config.data.fee = to_le_bytes(0, 2)],
            <<t1.call, t2.call>>, sr.curve)

\* Mutant: the transfers take the X-to-Y direction whatever is_x says.
Swap_process_x_in(w, now, data, cv) ==
  LET ld == load(w.config)
      cfg == w.config.data
      sr == Swap_curve(w.tok["vault_x"], w.tok["vault_y"], cfg, data, cv)
      sg == Signers({RecordSeeds(cfg)})
      t1 == Transfer(w, "user_x", "vault_x", User, sr.deposit, Signers({}))
      t2 == Transfer(t1.w, "vault_y", "user_y", ConfigAddress, sr.withdraw, sg)
  IN
  IF Swap_expired(now, data)
    THEN Exec(Err("InvalidArgument", "expiration"), w, <<>>, NoCurve)
  ELSE IF ~ld.ok THEN Exec(ld, w, <<>>, NoCurve)
  ELSE IF ~Swap_state_ok(cfg)
    THEN Exec(Err("InvalidAccountData", "lifecycle"), w, <<>>, NoCurve)
  ELSE IF ~sr.init_ok
    THEN Exec(Err("ArithmeticOverflow", "curve"), w, <<>>, sr.curve)
  ELSE IF ~sr.ok
    THEN Exec(Err("InvalidArgument", "curve"), w, <<>>, sr.curve)
  ELSE IF ~t1.ok
    THEN Exec(PrimitiveError("transfer_in"), t1.w, <<t1.call>>, sr.curve)
  ELSE IF ~t2.ok
    THEN Exec(PrimitiveError("transfer_out"), t2.w, <<t1.call, t2.call>>, sr.curve)
  ELSE Exec(Ok, t2.w, <<t1.call, t2.call>>, sr.curve)

\* Swap::process on the accounts the caller supplies in the vault_x and
\* vault_y positions.
Swap_process_on(w, now, data, cv, vault_x, vault_y) ==
  LET ld == load(w.config)
      cfg == w.config.data
      sr == Swap_curve(w.tok[vault_x], w.tok[vault_y], cfg, data, cv)
      sg == Signers({RecordSeeds(cfg)})
      user_in == IF data.is_x THEN "user_x" ELSE "user_y"
      vault_in == IF data.is_x THEN vault_x ELSE vault_y
      vault_out == IF data.is_x THEN vault_y ELSE vault_x
      user_out == IF data.is_x THEN "user_y" ELSE "user_x"
      t1 == Transfer(w, user_in, vault_in, User, sr.deposit, Signers({}))
      t2 == Transfer(t1.w, vault_out, user_out, ConfigAddress, sr.withdraw, sg)
  IN
  IF Swap_expired(now, data)
    THEN Exec(Err("InvalidArgument", "expiration"), w, <<>>, NoCurve)
  ELSE IF ~ld.ok THEN Exec(ld, w, <<>>, NoCurve)
  ELSE IF ~Swap_state_ok(cfg)
    THEN Exec(Err("InvalidAccountData", "lifecycle"), w, <<>>, NoCurve)
  ELSE IF ~sr.init_ok
    THEN Exec(Err("ArithmeticOverflow", "curve"), w, <<>>, sr.curve)
  ELSE IF ~sr.ok
    THEN Exec(Err("InvalidArgument", "curve"), w, <<>>, sr.curve)
  ELSE IF ~t1.ok
    THEN Exec(PrimitiveError("transfer_in"), t1.w, <<t1.call>>, sr.curve)
  ELSE IF ~t2.ok
    THEN Exec(PrimitiveError("transfer_out"), t2.w, <<t1.call, t2.call>>, sr.curve)
  ELSE Exec(Ok, t2.w, <<t1.call, t2.call>>, sr.curve)

\* Swap::process called with the pool's own vaults.
Swap_process(w, now, data, cv) ==
  Swap_process_on(w, now, data, cv, "vault_x", "vault_y")

----------------------------------------------------------------------------
\* instructions/initialize.rs
\* Mutant: the result of set_inner is dropped and the processor goes on.
Initialize_process_ignore_set_inner(w, data) ==
  LET config_seeds == ConfigSeeds(to_le_bytes(data.seed, 8), data.mint_x,
                                  data.mint_y, data.config_bump)
      c1 == CreateConfigAccount(w, ConfigLEN, ProgramID, Signers({config_seeds}))
      lm == load_mut_unchecked(c1.w.config)
      si == set_inner(c1.w.config.data, data.seed, data.authority, data.mint_x,
                      data.mint_y, data.fee, data.config_bump)
      w2 == [c1.w EXCEPT !.config.data = si.cfg]
      mint_lp_seeds == MintLpSeeds(ConfigAddress, data.lp_bump)
      c3 == CreateMintAccount(w2, MintLEN, TokenProgramID, Signers({mint_lp_seeds}))
      i4 == InitializeMint2(c3.w, 6, ConfigAddress, NoAddress)
  IN
  IF ~c1.ok THEN Exec(PrimitiveError("create_config"), c1.w, <<c1.call>>, NoCurve)
  ELSE IF ~lm.ok THEN Exec(lm, c1.w, <<c1.call>>, NoCurve)
  ELSE IF ~c3.ok
    THEN Exec(PrimitiveError("create_mint"), c3.w, <<c1.call, c3.call>>, NoCurve)
  ELSE IF ~i4.ok
    THEN Exec(PrimitiveError("initialize_mint"), i4.w,
              <<c1.call, c3.call, i4.call>>, NoCurve)
  ELSE Exec(Ok, i4.w, <<c1.call, c3.call, i4.call>>, NoCurve)

Initialize_process(w, data) ==
  LET config_seeds == ConfigSeeds(to_le_bytes(data.seed, 8), data.mint_x,
                                  data.mint_y, data.config_bump)
      c1 == CreateConfigAccount(w, ConfigLEN, ProgramID, Signers({config_seeds}))
      lm == load_mut_unchecked(c1.w.config)
      si == set_inner(c1.w.config.data, data.seed, data.authority, data.mint_x,
                      data.mint_y, data.fee, data.config_bump)
      w2 == [c1.w EXCEPT !.config.data = si.cfg]
      mint_lp_seeds == MintLpSeeds(ConfigAddress, data.lp_bump)
      c3 == CreateMintAccount(w2, MintLEN, TokenProgramID, Signers({mint_lp_seeds}))
      i4 == InitializeMint2(c3.w, 6, ConfigAddress, NoAddress)
  IN
  IF ~c1.ok THEN Exec(PrimitiveError("create_config"), c1.w, <<c1.call>>, NoCurve)
  ELSE IF ~lm.ok THEN Exec(lm, c1.w, <<c1.call>>, NoCurve)
  ELSE IF ~si.res.ok THEN Exec(si.res, w2, <<c1.call>>, NoCurve)
  ELSE IF ~c3.ok
    THEN Exec(PrimitiveError("create_mint"), c3.w, <<c1.call, c3.call>>, NoCurve)
  ELSE IF ~i4.ok
    THEN Exec(PrimitiveError("initialize_mint"), i4.w,
              <<c1.call, c3.call, i4.call>>, NoCurve)
  ELSE Exec(Ok, i4.w, <<c1.call, c3.call, i4.call>>, NoCurve)

----------------------------------------------------------------------------
\* lib.rs: the entrypoint hands the processor's result to the runtime, and
\* the runtime keeps the invocation's writes only when that result is Ok.
\* Mutant: the entrypoint drops the processor's error and reports success.
process_instruction_swallow(res) == Ok

process_instruction(res) == res

HostCommit(res, before, after) == IF res.ok THEN after ELSE before

Invoke(op, data, ex) ==
  LET r == process_instruction(ex.res)
      w2 == HostCommit(r, World, ex.w)
  IN /\ config' = w2.config
     /\ mint_lp' = w2.mint_lp
     /\ mint_alt' = w2.mint_alt
     /\ tok' = w2.tok
     /\ clock' = clock
     /\ last' = [op |-> op, data |-> data, now |-> clock, res |-> r,
                 handler |-> ex.res, calls |-> ex.calls, curve |-> ex.curve,
                 pre |-> World, work |-> ex.w]

----------------------------------------------------------------------------
\* The requests and collaborator outcomes the model draws from.
Amounts == 0..MaxAmt
Expirations == 0..MaxClock
DepositData ==
  [amount : Amounts, max_x : Amounts, max_y : Amounts, expiration : Expirations]
WithdrawData ==
  [amount : Amounts, min_x : Amounts, min_y : Amounts, expiration : Expirations]
SwapData ==
  [is_x : BOOLEAN, amount : Amounts, min : Amounts, expiration : Expirations]
InitializeData ==
  [seed : {Pool.seed, Pool.seed + 1}, fee : {9999, 10000},
   mint_x : {MintX}, mint_y : {MintY},
   config_bump : {Pool.config_bump, <<255>>},
   lp_bump : {Pool.lp_bump, <<255>>},
   authority : {Admin}]
CurveXY ==
  {[ok |-> FALSE, x |-> 0, y |-> 0]} \cup [ok : {TRUE}, x : Amounts, y : Amounts]
CurveSwap ==
  {[init_ok |-> FALSE, ok |-> FALSE, deposit |-> 0, withdraw |-> 0],
   [init_ok |-> TRUE, ok |-> FALSE, deposit |-> 0, withdraw |-> 0]}
  \cup [init_ok : {TRUE}, ok : {TRUE}, deposit : Amounts, withdraw : Amounts]
StateInputs == 0..4 \cup {255}
FeeInputs == {0, 9999, 10000, 65535}

NoInvocation ==
  [op |-> "none", data |-> <<>>, now |-> 0, res |-> Ok, handler |-> Ok,
   calls |-> <<>>, curve |-> NoCurve, pre |-> <<>>, work |-> <<>>]

Init ==
  /\ config = NoConfigAccount
  /\ mint_lp = NoMintAccount
  /\ mint_alt = CallerMint(0)
  /\ tok = [a \in TokenAccounts |->
              IF a \in {"user_x", "user_y"} THEN MaxBal ELSE 0]
  /\ clock = 0
  /\ last = NoInvocation

\* No invocation is running: the previous one has returned to the runtime.
Idle == last.op = "none"

\* The curve outcomes to draw for a run: all of them when the run reaches
\* the curve call, a single placeholder when it does not.
NoXY == [ok |-> FALSE, x |-> 0, y |-> 0]
NoSwap == [init_ok |-> FALSE, ok |-> FALSE, deposit |-> 0, withdraw |-> 0]
Outcomes(probe, all, none) == IF probe.curve.called THEN all ELSE {none}

Initialize ==
  /\ Idle
  /\ \E data \in InitializeData :
       Invoke("Initialize", data, Initialize_process(World, data))

Deposit ==
  /\ Idle
  /\ \E data \in DepositData :
       /\ mint_lp.supply + data.amount <= MaxSupply
       /\ \E cv \in Outcomes(Deposit_process(World, clock, data, NoXY),
                             CurveXY, NoXY) :
            Invoke("Deposit", data, Deposit_process(World, clock, data, cv))

Withdraw ==
  /\ Idle
  /\ \E data \in WithdrawData :
       \E cv \in Outcomes(Withdraw_process(World, clock, data, NoXY),
                          CurveXY, NoXY) :
         Invoke("Withdraw", data, Withdraw_process(World, clock, data, cv))

Swap ==
  /\ Idle
  /\ \E data \in SwapData :
       \E cv \in Outcomes(Swap_process(World, clock, data, NoSwap),
                          CurveSwap, NoSwap) :
         Invoke("Swap", data, Swap_process(World, clock, data, cv))

\* A store operation outside the four processors: load_mut, then the setter.
StoreWrite(op, v, r) ==
  LET ld == load(config)
      res == IF ld.ok THEN r.res ELSE ld
  IN /\ config' = IF ld.ok THEN [config EXCEPT !.data = r.cfg] ELSE config
     /\ last' = [NoInvocation EXCEPT !.op = op, !.data = v, !.now = clock,
                   !.res = res, !.handler = res, !.pre = World,
                   !.work = [World EXCEPT !.config = config']]
     /\ UNCHANGED <<mint_lp, mint_alt, tok, clock>>

\* A trusted operation changing lifecycle_state through the store.
SetState ==
  /\ Idle
  /\ \E v \in StateInputs : StoreWrite("set_state", v, set_state(config.data, v))

\* A trusted operation changing fee_bps through the store.
SetFee ==
  /\ Idle
  /\ \E v \in FeeInputs : StoreWrite("set_fee", v, set_fee(config.data, v))

\* The invocation has returned; the runtime is ready for the next one.
Return ==
  /\ ~Idle
  /\ last' = NoInvocation
  /\ UNCHANGED <<config, mint_lp, mint_alt, tok, clock>>

\* The clock oracle: monotonically non-decreasing.
Tick ==
  /\ Idle
  /\ clock < MaxClock
  /\ clock' = clock + 1
  /\ UNCHANGED <<config, mint_lp, mint_alt, tok, last>>

Next ==
  \/ Initialize
  \/ Deposit
  \/ Withdraw
  \/ Swap
  \/ SetState
  \/ SetFee
  \/ Return
  \/ Tick

Spec == Init /\ [][Next]_vars

----------------------------------------------------------------------------
\* The processors' lifecycle guards read the record's state byte whatever
\* wrote it. SpecAnyLifecycle starts from a created pool whose state byte is
\* any of the four AmmState values, with any split of the balances between
\* the user and the vaults, and runs the three processors that load it.
CreatedConfig(st) ==
  [data_len |-> ConfigLEN, owner |-> ProgramID,
   data |-> [set_inner(ZeroConfig, Pool.seed, Admin, MintX, MintY, 0,
                       Pool.config_bump).cfg EXCEPT !.state = st]]

CreatedMint(supply) ==
  [data_len |-> MintLEN, owner |-> TokenProgramID, is_initialized |-> TRUE,
   supply |-> supply, decimals |-> 6, mint_authority |-> ConfigAddress,
   freeze_authority |-> NoAddress]

InitAnyLifecycle ==
  \E st \in {Uninitialized, Initialized, Disabled, WithdrawOnly},
     s \in 0..MaxSupply, vx \in 0..MaxBal, vy \in 0..MaxBal :
    /\ config = CreatedConfig(st)
    /\ mint_lp = CreatedMint(s)
    /\ mint_alt = CallerMint(0)
    /\ tok = [a \in TokenAccounts |->
                CASE a = "vault_x" -> vx
                  [] a = "vault_y" -> vy
                  [] a = "user_x" -> MaxBal - vx
                  [] a = "user_y" -> MaxBal - vy
                  [] a = "user_lp" -> s
                  [] OTHER -> 0]
    /\ clock = 0
    /\ last = NoInvocation

NextAnyLifecycle ==
  \/ Deposit
  \/ Withdraw
  \/ Swap
  \/ Return
  \/ Tick

SpecAnyLifecycle == InitAnyLifecycle /\ [][NextAnyLifecycle]_vars

----------------------------------------------------------------------------
\* The program as its entrypoint exposes it: the four processors only.
NextProcessors ==
  \/ Initialize
  \/ Deposit
  \/ Withdraw
  \/ Swap
  \/ Return
  \/ Tick

SpecProcessors == Init /\ [][NextProcessors]_vars

----------------------------------------------------------------------------
\* The pool-config account of a request is whatever account the caller
\* supplies in that position. SpecAnyConfigAccount starts from a funded pool
\* and an account of any length and any owner in the config position (its
\* bytes being those of a valid record even when length or owner are not),
\* and runs the three processors that load it and the creation-only
\* load_mut_unchecked.
ConfigAccounts ==
  [data_len : {0, ConfigLEN - 1, ConfigLEN, ConfigLEN + 1},
   owner : {ProgramID, SystemProgramID, TokenProgramID},
   data : {CreatedConfig(Initialized).data}]

InitAnyConfigAccount ==
  \E acct \in ConfigAccounts, s \in 0..MaxSupply :
    /\ config = acct
    /\ mint_lp = CreatedMint(s)
    /\ mint_alt = CallerMint(0)
    /\ tok = [a \in TokenAccounts |->
                CASE a \in {"vault_x", "vault_y"} -> s
                  [] a \in {"user_x", "user_y"} -> MaxBal - s
                  [] a = "user_lp" -> s
                  [] OTHER -> 0]
    /\ clock = 0
    /\ last = NoInvocation

\* Config::load_mut_unchecked on the supplied account.
LoadMutUnchecked ==
  /\ Idle
  /\ LET r == load_mut_unchecked(config)
     IN last' = [NoInvocation EXCEPT !.op = "load_mut_unchecked",
                   !.now = clock, !.res = r, !.handler = r,
                   !.pre = World, !.work = World]
  /\ UNCHANGED <<config, mint_lp, mint_alt, tok, clock>>

NextAnyConfigAccount ==
  \/ Deposit
  \/ Withdraw
  \/ Swap
  \/ LoadMutUnchecked
  \/ Return
  \/ Tick

SpecAnyConfigAccount == InitAnyConfigAccount /\ [][NextAnyConfigAccount]_vars

----------------------------------------------------------------------------
\* The accounts in the vault_x and vault_y positions of a Deposit or a Swap
\* are whatever token accounts the caller supplies. SpecAnyVault starts
\* from a created pool and lets the caller pass, in each position, the
\* pool's vault or an account of the same asset that the caller owns.
VaultXAccounts == {"vault_x", "alt_x"}
VaultYAccounts == {"vault_y", "alt_y"}

InitAnyVault ==
  \E s \in 0..(MaxSupply - 1) :
    /\ config = CreatedConfig(Initialized)
    /\ mint_lp = CreatedMint(s)
    /\ mint_alt = CallerMint(0)
    /\ tok = [a \in TokenAccounts |->
                CASE a \in {"vault_x", "vault_y"} -> s
                  [] a \in {"user_x", "user_y"} -> MaxBal - s
                  [] a = "user_lp" -> s
                  [] OTHER -> 0]
    /\ clock = 0
    /\ last = NoInvocation

DepositAnyVault ==
  /\ Idle
  /\ \E data \in DepositData, vx \in VaultXAccounts, vy \in VaultYAccounts :
       /\ mint_lp.supply + data.amount <= MaxSupply
       /\ \E cv \in Outcomes(Deposit_process_on(World, clock, data, NoXY, vx, vy),
                             CurveXY, NoXY) :
            Invoke("Deposit", data @@ [vault_x |-> vx, vault_y |-> vy],
                   Deposit_process_on(World, clock, data, cv, vx, vy))

SwapAnyVault ==
  /\ Idle
  /\ \E data \in SwapData, vx \in VaultXAccounts, vy \in VaultYAccounts :
       \E cv \in Outcomes(Swap_process_on(World, clock, data, NoSwap, vx, vy),
                          CurveSwap, NoSwap) :
         Invoke("Swap", data @@ [vault_x |-> vx, vault_y |-> vy],
                Swap_process_on(World, clock, data, cv, vx, vy))

NextAnyVault ==
  \/ DepositAnyVault
  \/ SwapAnyVault
  \/ Withdraw
  \/ Return
  \/ Tick

SpecAnyVault == InitAnyVault /\ [][NextAnyVault]_vars

----------------------------------------------------------------------------
\* The accounts in the mint_lp and user_lp_ata positions of a Withdraw are
\* whatever accounts the caller supplies. SpecAnyMint starts from a created
\* pool that holds deposits, with a mint the user created and minted to
\* alt_lp, and lets the caller pass either mint with its account.
MintPositions ==
  {[mint |-> "mint_lp", user_lp |-> "user_lp"],
   [mint |-> "mint_alt", user_lp |-> "alt_lp"]}

InitAnyMint ==
  \E s \in 1..MaxSupply, a \in 0..MaxSupply :
    /\ config = CreatedConfig(Initialized)
    /\ mint_lp = CreatedMint(s)
    /\ mint_alt = CallerMint(a)
    /\ tok = [t \in TokenAccounts |->
                CASE t \in {"vault_x", "vault_y"} -> s
                  [] t \in {"user_x", "user_y"} -> MaxBal - s
                  [] t = "user_lp" -> s
                  [] t = "alt_lp" -> a
                  [] OTHER -> 0]
    /\ clock = 0
    /\ last = NoInvocation

WithdrawAnyMint ==
  /\ Idle
  /\ \E data \in WithdrawData, mp \in MintPositions :
       \E cv \in Outcomes(Withdraw_process_on(World, clock, data, NoXY,
                                              mp.mint, mp.user_lp),
                          CurveXY, NoXY) :
         Invoke("Withdraw", data @@ mp,
                Withdraw_process_on(World, clock, data, cv,
                                    mp.mint, mp.user_lp))

NextAnyMint ==
  \/ WithdrawAnyMint
  \/ Deposit
  \/ Swap
  \/ Return
  \/ Tick

SpecAnyMint == InitAnyMint /\ [][NextAnyMint]_vars

----------------------------------------------------------------------------
\* instructions/initialize.rs: decoding the Initialize payload. The payload
\* is a slice (pointer, length) into memory: mem is the memory from the
\* pointer on, of which only the first len bytes belong to the slice.
INITIALIZE_DATA_LEN_WITH_AUTHORITY == 8 + 2 + 32 + 32 + 1 + 1 + 32
INITIALIZE_DATA_LEN == INITIALIZE_DATA_LEN_WITH_AUTHORITY - 32

Zeros(n) == [i \in 1..n |-> 0]

\* read_unaligned of the packed struct from a full-length buffer: every
\* field at its offset, the integers little-endian.
read_unaligned(raw) ==
  [seed |-> from_le_bytes(SubSeq(raw, 1, 8)),
   fee |-> from_le_bytes(SubSeq(raw, 9, 10)),
   mint_x |-> SubSeq(raw, 11, 42),
   mint_y |-> SubSeq(raw, 43, 74),
   config_bump |-> SubSeq(raw, 75, 75),
   lp_bump |-> SubSeq(raw, 76, 76),
   authority |-> SubSeq(raw, 77, 108)]

\* Mutant: the short form is read in place, like the long form.
InitializeInstructionData_try_from_in_place(len, mem) ==
  IF len = INITIALIZE_DATA_LEN_WITH_AUTHORITY \/ len = INITIALIZE_DATA_LEN
  THEN [res |-> Ok,
        data |-> read_unaligned(SubSeq(mem, 1, INITIALIZE_DATA_LEN_WITH_AUTHORITY)),
        read |-> INITIALIZE_DATA_LEN_WITH_AUTHORITY]
  ELSE [res |-> Err("InvalidInstructionData", "data"), data |-> <<>>, read |-> 0]

\* InitializeInstructionData::try_from: the decoded request and the number
\* of bytes read from the slice's pointer.
InitializeInstructionData_try_from(len, mem) ==
  IF len = INITIALIZE_DATA_LEN_WITH_AUTHORITY
  THEN [res |-> Ok,
        data |-> read_unaligned(SubSeq(mem, 1, INITIALIZE_DATA_LEN_WITH_AUTHORITY)),
        read |-> INITIALIZE_DATA_LEN_WITH_AUTHORITY]
  ELSE IF len = INITIALIZE_DATA_LEN
  THEN [res |-> Ok,
        data |-> read_unaligned(SubSeq(mem, 1, INITIALIZE_DATA_LEN) \o Zeros(32)),
        read |-> INITIALIZE_DATA_LEN]
  ELSE [res |-> Err("InvalidInstructionData", "data"), data |-> <<>>, read |-> 0]

\* The memory the decoder is run on: a 76-byte body, the 32 bytes after it
\* (the authority of a long-form payload, foreign bytes after a short-form
\* one) and one byte more; the slice is its first len bytes.
ByteAddr(b) == [i \in 1..32 |-> b]
CodecBodies ==
  {to_le_bytes(sd, 8) \o to_le_bytes(f, 2) \o ByteAddr(mx) \o ByteAddr(my)
     \o <<cb>> \o <<lb>> :
     sd \in {7, 258}, f \in {30, 10000}, mx \in {1, 2}, my \in {3},
     cb \in {254, 255}, lb \in {253, 255}}
CodecTails == {ByteAddr(0), ByteAddr(9), ByteAddr(170)}
CodecLens ==
  {0, INITIALIZE_DATA_LEN - 1, INITIALIZE_DATA_LEN, INITIALIZE_DATA_LEN + 1,
   INITIALIZE_DATA_LEN_WITH_AUTHORITY - 1, INITIALIZE_DATA_LEN_WITH_AUTHORITY,
   INITIALIZE_DATA_LEN_WITH_AUTHORITY + 1}

\* The decoder runs on a payload; last.work holds what it returned.
DecodeInitialize ==
  /\ Idle
  /\ \E body \in CodecBodies, tail \in CodecTails, len \in CodecLens :
       LET mem == body \o tail \o <<tail[1]>>
           r == InitializeInstructionData_try_from(len, mem)
       IN last' = [NoInvocation EXCEPT !.op = "Initialize_try_from",
                     !.data = [len |-> len, mem |-> mem],
                     !.res = r.res, !.handler = r.res, !.work = r]
  /\ UNCHANGED <<config, mint_lp, mint_alt, tok, clock>>

\* The fixed-size payloads of Deposit, Withdraw and Swap (packed structs).
DepositInstructionData_LEN == 8 + 8 + 8 + 8
WithdrawInstructionData_LEN == 8 + 8 + 8 + 8
SwapInstructionData_LEN == 1 + 8 + 8 + 8

DecodeError == [res |-> Err("InvalidInstructionData", "data"), data |-> <<>>, read |-> 0]

\* DepositInstructionData::try_from: the length test, then the struct is
\* read in place from the slice's pointer.
DepositInstructionData_try_from(len, mem) ==
  IF len < DepositInstructionData_LEN THEN DecodeError
  ELSE [res |-> Ok,
        data |-> [amount |-> from_le_bytes(SubSeq(mem, 1, 8)),
                  max_x |-> from_le_bytes(SubSeq(mem, 9, 16)),
                  max_y |-> from_le_bytes(SubSeq(mem, 17, 24)),
                  expiration |-> from_le_bytes(SubSeq(mem, 25, 32))],
        read |-> DepositInstructionData_LEN]

\* WithdrawInstructionData::try_from.
WithdrawInstructionData_try_from(len, mem) ==
  IF len < WithdrawInstructionData_LEN THEN DecodeError
  ELSE [res |-> Ok,
        data |-> [amount |-> from_le_bytes(SubSeq(mem, 1, 8)),
                  min_x |-> from_le_bytes(SubSeq(mem, 9, 16)),
                  min_y |-> from_le_bytes(SubSeq(mem, 17, 24)),
                  expiration |-> from_le_bytes(SubSeq(mem, 25, 32))],
        read |-> WithdrawInstructionData_LEN]

\* SwapInstructionData::try_from. The first byte is read as a bool: for a
\* byte other than 0 and 1 that read is undefined, and ub is the value the
\* build then produces.
SwapInstructionData_try_from(len, mem, ub) ==
  IF len < SwapInstructionData_LEN THEN DecodeError
  ELSE [res |-> Ok,
        data |-> [is_x |-> IF mem[1] = 0 THEN FALSE
                           ELSE IF mem[1] = 1 THEN TRUE ELSE ub,
                  amount |-> from_le_bytes(SubSeq(mem, 2, 9)),
                  min |-> from_le_bytes(SubSeq(mem, 10, 17)),
                  expiration |-> from_le_bytes(SubSeq(mem, 18, 25))],
        read |-> SwapInstructionData_LEN]

\* XAccounts::try_from: one iter.next() per account of the operation; n is
\* the number of accounts supplied.
Accounts_try_from(n, arity) ==
  IF n < arity THEN Err("NotEnoughAccountKeys", "accounts") ELSE Ok

MissingAccounts(ac) == [res |-> ac, data |-> <<>>, read |-> 0]

\* Mutant: Deposit decodes the payload before it takes the accounts.
Deposit_try_from_data_first(n, len, mem) ==
  LET dd == DepositInstructionData_try_from(len, mem)
      ac == Accounts_try_from(n, 9)
  IN IF ~dd.res.ok THEN dd
     ELSE IF ~ac.ok THEN MissingAccounts(ac) ELSE dd

\* X::try_from((data, accounts)): the accounts first, then the payload.
Deposit_try_from(n, len, mem) ==
  LET ac == Accounts_try_from(n, 9)
  IN IF ~ac.ok THEN MissingAccounts(ac)
     ELSE DepositInstructionData_try_from(len, mem)

Withdraw_try_from(n, len, mem) ==
  LET ac == Accounts_try_from(n, 9)
  IN IF ~ac.ok THEN MissingAccounts(ac)
     ELSE WithdrawInstructionData_try_from(len, mem)

Swap_try_from(n, len, mem, ub) ==
  LET ac == Accounts_try_from(n, 7)
  IN IF ~ac.ok THEN MissingAccounts(ac)
     ELSE SwapInstructionData_try_from(len, mem, ub)

Initialize_try_from(n, len, mem) ==
  LET ac == Accounts_try_from(n, 3)
  IN IF ~ac.ok THEN MissingAccounts(ac)
     ELSE InitializeInstructionData_try_from(len, mem)

\* lib.rs: split_first on the instruction data, then the match on the
\* discriminator; len and mem are the whole instruction data.
dispatch(n, len, mem, ub) ==
  IF len = 0 THEN DecodeError
  ELSE CASE mem[1] = 0 -> Initialize_try_from(n, len - 1, Tail(mem))
         [] mem[1] = 1 -> Deposit_try_from(n, len - 1, Tail(mem))
         [] mem[1] = 2 -> Withdraw_try_from(n, len - 1, Tail(mem))
         [] mem[1] = 3 -> Swap_try_from(n, len - 1, Tail(mem), ub)
         [] OTHER -> DecodeError

\* The number of accounts an operation takes, and the requests drawn: for
\* each discriminator the payload bodies, the payload lengths around the
\* struct size and the account counts around the arity.
Arity(disc) == CASE disc = 0 -> 3 [] disc = 1 -> 9 [] disc = 2 -> 9 [] OTHER -> 7
FixedBodies ==
  {to_le_bytes(a, 8) \o to_le_bytes(2, 8) \o to_le_bytes(3, 8) \o to_le_bytes(e, 8) :
     a \in {1, 258}, e \in {0, 1}}
SwapBodies == {<<b>> \o SubSeq(fb, 1, 24) : b \in {0, 1, 2}, fb \in FixedBodies}
RequestBodies(disc) ==
  CASE disc = 0 -> {b \o ByteAddr(9) : b \in CodecBodies}
    [] disc \in {1, 2} -> {b \o <<9>> : b \in FixedBodies}
    [] OTHER -> {b \o <<9>> : b \in SwapBodies}
RequestLens(disc) ==
  CASE disc = 0 -> CodecLens
    [] disc \in {1, 2} ->
         {0, DepositInstructionData_LEN - 1, DepositInstructionData_LEN,
          DepositInstructionData_LEN + 1}
    [] OTHER ->
         {0, SwapInstructionData_LEN - 1, SwapInstructionData_LEN,
          SwapInstructionData_LEN + 1}
RequestCounts(disc) == {0, Arity(disc) - 1, Arity(disc), Arity(disc) + 1}

\* The entrypoint decodes a request; last.work holds what try_from returned.
DecodeRequest ==
  /\ Idle
  /\ \E disc \in 0..4 :
       \E body \in RequestBodies(disc), len \in RequestLens(disc),
          n \in RequestCounts(disc), ub \in BOOLEAN :
         LET mem == <<disc>> \o body \o <<9>>
             r == dispatch(n, len + 1, mem, ub)
         IN /\ (disc = 3 /\ body[1] \notin {0, 1}) \/ ub
            /\ last' = [NoInvocation EXCEPT !.op = "try_from",
                          !.data = [disc |-> disc, n |-> n, len |-> len,
                                    mem |-> Tail(mem), ub |-> ub],
                          !.res = r.res, !.handler = r.res, !.work = r]
  /\ UNCHANGED <<config, mint_lp, mint_alt, tok, clock>>

\* An instruction without any byte: split_first returns None.
DecodeEmpty ==
  /\ Idle
  /\ \E n \in 0..1 :
       LET r == dispatch(n, 0, <<>>, TRUE)
       IN last' = [NoInvocation EXCEPT !.op = "try_from_empty", !.data = n,
                     !.res = r.res, !.handler = r.res, !.work = r]
  /\ UNCHANGED <<config, mint_lp, mint_alt, tok, clock>>

NextCodec ==
  \/ DecodeInitialize
  \/ DecodeRequest
  \/ DecodeEmpty
  \/ Return

SpecCodec == Init /\ [][NextCodec]_vars

----------------------------------------------------------------------------
\* Reading the record of the last invocation.
Processors == {"Initialize", "Deposit", "Withdraw", "Swap"}
Timed == {"Deposit", "Withdraw", "Swap"}
PreState == state(last.pre.config.data)
PreSupply == last.pre.mint_lp.supply
PreTok(a) == last.pre.tok[a]
Unchanged == World = last.pre
CallsOf(prim) == {i \in 1..Len(last.calls) : last.calls[i].prim = prim}

----------------------------------------------------------------------------
\* C1: an invocation of a processor that returns an error leaves the pool
\* record, the vault and user balances and the LP supply as they were before
\* it, also when primitives of the same invocation had already succeeded;
\* the error is what the entrypoint reports.
C1_FailureChangesNothing ==
  (last.op \in Processors /\ ~last.handler.ok) =>
    (Unchanged /\ ~last.res.ok)

\* A Deposit whose X transfer succeeded and whose Y transfer then failed.
C1_Witness ==
  /\ last.op = "Deposit"
  /\ ~last.res.ok
  /\ Len(last.calls) = 2
  /\ last.calls[1].ok /\ last.calls[1].amount > 0
  /\ ~last.calls[2].ok
  /\ last.work # last.pre
  /\ Unchanged

\* C2: a Deposit, Withdraw or Swap whose expiration is strictly less than
\* the clock is rejected with no primitive invoked; one whose expiration
\* equals the clock is not rejected by the expiration guard.
C2_Expiration ==
  last.op \in Timed =>
    /\ last.data.expiration < last.now =>
         (~last.res.ok /\ last.res.at = "expiration" /\ last.calls = <<>>
          /\ Unchanged)
    /\ last.data.expiration = last.now => last.res.at # "expiration"

\* An expired Deposit on an Initialized pool is rejected.
C2_Witness ==
  /\ last.op = "Deposit"
  /\ last.data.expiration < last.now
  /\ PreState = Initialized
  /\ last.pre.config.data_len = ConfigLEN
  /\ last.res.at = "expiration"

\* C3: Deposit and Swap succeed only when lifecycle_state is Initialized;
\* for every other value both are rejected and no primitive is invoked.
C3_DepositSwapNeedInitialized ==
  last.op \in {"Deposit", "Swap"} =>
    /\ last.res.ok => PreState = Initialized
    /\ PreState # Initialized =>
         (~last.res.ok /\ last.calls = <<>> /\ Unchanged)

\* An unexpired Swap against a WithdrawOnly pool is rejected by the guard.
C3_Witness ==
  /\ last.op = "Swap"
  /\ PreState = WithdrawOnly
  /\ last.res.at = "lifecycle"

\* C4: Withdraw is rejected by the lifecycle guard exactly when
\* lifecycle_state is Disabled; in Initialized and in WithdrawOnly a
\* Withdraw that passes the other checks succeeds, and in WithdrawOnly
\* Deposit and Swap are refused.
C4_WithdrawLifecycle ==
  /\ last.op = "Withdraw" =>
       /\ last.res.at = "lifecycle" <=>
            (last.data.expiration >= last.now /\ PreState = Disabled)
       /\ ( /\ PreState \in {Initialized, WithdrawOnly}
            /\ last.data.expiration >= last.now
            /\ last.data.amount = PreSupply
            /\ last.data.amount <= PreTok("user_lp")
            /\ last.data.min_x <= PreTok("vault_x")
            /\ last.data.min_y <= PreTok("vault_y") )
          => ( /\ last.res.ok
               /\ tok["user_x"] = PreTok("user_x") + PreTok("vault_x")
               /\ tok["user_y"] = PreTok("user_y") + PreTok("vault_y") )
       /\ ( /\ PreState \in {Initialized, WithdrawOnly}
            /\ last.data.expiration >= last.now
            /\ last.curve.called /\ last.curve.out.ok
            /\ last.curve.out.x >= last.data.min_x
            /\ last.curve.out.y >= last.data.min_y
            /\ last.curve.out.x <= PreTok("vault_x")
            /\ last.curve.out.y <= PreTok("vault_y")
            /\ last.data.amount <= PreTok("user_lp") )
          => last.res.ok
  /\ (last.op \in {"Deposit", "Swap"} /\ PreState = WithdrawOnly) =>
       ~last.res.ok

\* A Withdraw that pays out of a WithdrawOnly pool.
C4_Witness ==
  /\ last.op = "Withdraw"
  /\ PreState = WithdrawOnly
  /\ last.res.ok
  /\ tok["user_x"] > PreTok("user_x")

\* C5: set_state rejects every value above WithdrawOnly (3) and accepts,
\* storing it, every value 0..3. The code rejects 3 as well.
C5_SetStateAccepts0To3 ==
  (last.op = "set_state" /\ load(last.pre.config).ok) =>
    IF last.data > WithdrawOnly
    THEN ~last.res.ok /\ Unchanged
    ELSE last.res.ok /\ state(config.data) = last.data

\* C6: set_fee rejects every value >= 10000, leaving the stored fee as it
\* was, and accepts, storing it, every value 0..9999.
C6_SetFee ==
  (last.op = "set_fee" /\ load(last.pre.config).ok) =>
    IF last.data >= 10000
    THEN ~last.res.ok /\ fee(config.data) = fee(last.pre.config.data)
         /\ Unchanged
    ELSE last.res.ok /\ fee(config.data) = last.data

\* set_fee(10000) refused on a pool whose stored fee is 9999.
C6_Witness ==
  /\ last.op = "set_fee"
  /\ last.data = 10000
  /\ ~last.res.ok
  /\ fee(config.data) = 9999

\* C7: a successful Deposit at LP supply zero moves exactly max_x of X and
\* max_y of Y from the user into the vaults and mints exactly amount of LP,
\* whatever the relation between amount, max_x and max_y.
C7_FirstDeposit ==
  (last.op = "Deposit" /\ last.res.ok /\ PreSupply = 0) =>
    /\ tok["user_x"] = PreTok("user_x") - last.data.max_x
    /\ tok["vault_x"] = PreTok("vault_x") + last.data.max_x
    /\ tok["user_y"] = PreTok("user_y") - last.data.max_y
    /\ tok["vault_y"] = PreTok("vault_y") + last.data.max_y
    /\ tok["user_lp"] = PreTok("user_lp") + last.data.amount
    /\ mint_lp.supply = last.data.amount
    /\ ~last.curve.called

\* A first deposit whose amount, max_x and max_y all differ.
C7_Witness ==
  /\ last.op = "Deposit" /\ last.res.ok /\ PreSupply = 0
  /\ last.data.amount > 0
  /\ last.data.max_x # last.data.amount
  /\ last.data.max_y # last.data.amount
  /\ last.data.max_x # last.data.max_y

\* C8: in a Deposit on a pool with non-zero supply every amount transferred
\* is within its bound (x <= max_x, y <= max_y), and when the computed x
\* exceeds max_x or the computed y exceeds max_y the Deposit is rejected
\* before any primitive is invoked.
C8_DepositSlippage ==
  (last.op = "Deposit" /\ PreSupply > 0) =>
    /\ \A i \in CallsOf("Transfer") :
         /\ last.calls[i].to = "vault_x" => last.calls[i].amount <= last.data.max_x
         /\ last.calls[i].to = "vault_y" => last.calls[i].amount <= last.data.max_y
    /\ last.res.ok =>
         /\ PreTok("user_x") - tok["user_x"] <= last.data.max_x
         /\ PreTok("user_y") - tok["user_y"] <= last.data.max_y
    /\ ( /\ last.curve.called /\ last.curve.out.ok
         /\ \/ last.curve.out.x > last.data.max_x
            \/ last.curve.out.y > last.data.max_y )
       => (~last.res.ok /\ last.calls = <<>> /\ Unchanged)

\* The curve asks for more X than max_x (and no more Y than max_y) and the
\* Deposit is rejected by the slippage guard.
C8_Witness ==
  /\ last.op = "Deposit" /\ PreSupply > 0
  /\ last.curve.called /\ last.curve.out.ok
  /\ last.curve.out.x > last.data.max_x
  /\ last.curve.out.y <= last.data.max_y
  /\ last.res.at = "slippage"

\* C11: a successful Withdraw whose burn amount equals the total LP supply
\* pays out exactly the vaults' balances at the start of the invocation
\* (no curve call), so that afterwards both vaults hold zero and the LP
\* supply is zero.
C11_FullWithdraw ==
  (last.op = "Withdraw" /\ last.res.ok /\ last.data.amount = PreSupply) =>
    /\ ~last.curve.called
    /\ last.calls[2].amount = PreTok("vault_x")
    /\ last.calls[3].amount = PreTok("vault_y")
    /\ tok["user_x"] = PreTok("user_x") + PreTok("vault_x")
    /\ tok["user_y"] = PreTok("user_y") + PreTok("vault_y")
    /\ tok["vault_x"] = 0
    /\ tok["vault_y"] = 0
    /\ mint_lp.supply = 0

\* The whole supply is burnt against vaults holding different, non-zero
\* balances.
C11_Witness ==
  /\ last.op = "Withdraw" /\ last.res.ok
  /\ last.data.amount = PreSupply /\ PreSupply > 0
  /\ PreTok("vault_x") > 0 /\ PreTok("vault_y") > 0
  /\ PreTok("vault_x") # PreTok("vault_y")
  /\ tok["vault_x"] = 0 /\ tok["vault_y"] = 0

\* The Withdraw got as far as computing the amounts to pay out.
Withdraw_computed ==
  /\ last.res.at \notin {"expiration", "load", "lifecycle", "mint_lp"}
  /\ last.curve.called => last.curve.out.ok
Withdraw_x == IF last.curve.called THEN last.curve.out.x ELSE PreTok("vault_x")
Withdraw_y == IF last.curve.called THEN last.curve.out.y ELSE PreTok("vault_y")

\* C12: a Withdraw, on the full-supply path and on the proportional path
\* alike, whose computed x is below min_x or whose computed y is below min_y
\* is rejected before the burn and before any vault transfer; every
\* successful Withdraw pays x >= min_x and y >= min_y.
C12_WithdrawSlippage ==
  last.op = "Withdraw" =>
    /\ Withdraw_computed =>
         ((last.data.amount = PreSupply) <=> ~last.curve.called)
    /\ ( /\ Withdraw_computed
         /\ Withdraw_x < last.data.min_x \/ Withdraw_y < last.data.min_y )
       => ( /\ ~last.res.ok /\ last.res.at = "slippage"
            /\ last.calls = <<>> /\ Unchanged )
    /\ \A i \in CallsOf("Transfer") :
         /\ last.calls[i].from = "vault_x" => last.calls[i].amount >= last.data.min_x
         /\ last.calls[i].from = "vault_y" => last.calls[i].amount >= last.data.min_y
    /\ last.res.ok =>
         /\ tok["user_x"] - PreTok("user_x") >= last.data.min_x
         /\ tok["user_y"] - PreTok("user_y") >= last.data.min_y

\* A full-supply Withdraw asking for more X than vault_x holds (and no more
\* Y than vault_y holds) is rejected by the slippage guard.
C12_Witness ==
  /\ last.op = "Withdraw"
  /\ last.data.amount = PreSupply /\ PreSupply > 0
  /\ ~last.curve.called
  /\ PreTok("vault_x") < last.data.min_x
  /\ PreTok("vault_y") >= last.data.min_y
  /\ last.res.at = "slippage"

\* C13: in every Withdraw the burn of the requested LP amount from the user
\* has completed successfully before the first transfer out of a vault is
\* invoked; no vault pays out when the burn has not happened or has failed.
C13_BurnBeforePayout ==
  last.op = "Withdraw" =>
    /\ \A i \in CallsOf("Transfer") :
         \E j \in CallsOf("Burn") :
           /\ j < i
           /\ last.calls[j] = Call("Burn", "user_lp", "mint_lp",
                                   last.data.amount, TRUE)
    /\ \A j \in CallsOf("Burn") :
         ~last.calls[j].ok => CallsOf("Transfer") = {}
    /\ (\E a \in {"vault_x", "vault_y"} : last.work.tok[a] # PreTok(a)) =>
         /\ last.work.mint_lp.supply = PreSupply - last.data.amount
         /\ last.work.tok["user_lp"] = PreTok("user_lp") - last.data.amount

\* The burn fails (the user holds less LP than requested) although the
\* vaults could have paid the computed amounts: no transfer is invoked.
C13_Witness ==
  /\ last.op = "Withdraw"
  /\ last.curve.called /\ last.curve.out.ok
  /\ last.curve.out.x > 0 /\ last.curve.out.x <= PreTok("vault_x")
  /\ last.curve.out.y > 0 /\ last.curve.out.y <= PreTok("vault_y")
  /\ Len(last.calls) = 1
  /\ last.calls[1].prim = "Burn" /\ ~last.calls[1].ok
  /\ last.res.at = "burn"

\* The amounts a Deposit collects: the caller's maxima on an empty pool, the
\* curve's result otherwise.
Deposit_x == IF last.curve.called THEN last.curve.out.x ELSE last.data.max_x
Deposit_y == IF last.curve.called THEN last.curve.out.y ELSE last.data.max_y

\* C14: in every Deposit LP is minted to the user only after the transfer
\* of x of X and then the transfer of y of Y from the user into the vaults
\* have both succeeded; no LP is minted when either transfer has not
\* happened or has failed.
C14_MintAfterTransfers ==
  last.op = "Deposit" =>
    /\ \A i \in CallsOf("MintTo") :
         /\ i = 3
         /\ last.calls[1] = Call("Transfer", "user_x", "vault_x", Deposit_x, TRUE)
         /\ last.calls[2] = Call("Transfer", "user_y", "vault_y", Deposit_y, TRUE)
         /\ last.calls[3].to = "user_lp"
         /\ last.calls[3].amount = last.data.amount
    /\ \A i \in CallsOf("Transfer") :
         /\ last.calls[i].to = "vault_x" => i = 1
         /\ last.calls[i].to = "vault_y" => (i = 2 /\ last.calls[1].ok)
    /\ \A i \in CallsOf("Transfer") :
         ~last.calls[i].ok => CallsOf("MintTo") = {}
    /\ last.work.mint_lp.supply # PreSupply =>
         /\ last.work.tok["vault_x"] = PreTok("vault_x") + Deposit_x
         /\ last.work.tok["vault_y"] = PreTok("vault_y") + Deposit_y

\* The user holds less X than the curve asks for: the X transfer fails and
\* neither the Y transfer nor the mint is invoked.
C14_Witness ==
  /\ last.op = "Deposit"
  /\ last.data.amount > 0
  /\ last.curve.called /\ last.curve.out.ok
  /\ last.curve.out.x > PreTok("user_x")
  /\ Len(last.calls) = 1
  /\ last.calls[1].to = "vault_x" /\ ~last.calls[1].ok
  /\ last.work.mint_lp.supply = PreSupply

\* C17: a successful Swap with is_x = TRUE moves exactly `deposit` of X from
\* the user to vault_x and then exactly `withdraw` of Y from vault_y to the
\* user; with is_x = FALSE it moves `deposit` of Y into vault_y and then
\* `withdraw` of X out of vault_x. The input transfer precedes the output
\* transfer, and the LP supply and the pool record are unchanged.
C17_SwapMoves ==
  (last.op = "Swap" /\ last.res.ok) =>
    LET d == last.curve.out.deposit
        wd == last.curve.out.withdraw
    IN /\ last.curve.called
       /\ last.data.is_x =>
            /\ last.calls = <<Call("Transfer", "user_x", "vault_x", d, TRUE),
                              Call("Transfer", "vault_y", "user_y", wd, TRUE)>>
            /\ tok["user_x"] = PreTok("user_x") - d
            /\ tok["vault_x"] = PreTok("vault_x") + d
            /\ tok["vault_y"] = PreTok("vault_y") - wd
            /\ tok["user_y"] = PreTok("user_y") + wd
       /\ ~last.data.is_x =>
            /\ last.calls = <<Call("Transfer", "user_y", "vault_y", d, TRUE),
                              Call("Transfer", "vault_x", "user_x", wd, TRUE)>>
            /\ tok["user_y"] = PreTok("user_y") - d
            /\ tok["vault_y"] = PreTok("vault_y") + d
            /\ tok["vault_x"] = PreTok("vault_x") - wd
            /\ tok["user_x"] = PreTok("user_x") + wd
       /\ tok["user_lp"] = PreTok("user_lp")
       /\ mint_lp = last.pre.mint_lp
       /\ config = last.pre.config

\* A Y-to-X swap that takes in and pays out different, non-zero amounts.
C17_Witness ==
  /\ last.op = "Swap" /\ last.res.ok
  /\ ~last.data.is_x
  /\ last.curve.out.deposit > 0 /\ last.curve.out.withdraw > 0
  /\ last.curve.out.deposit # last.curve.out.withdraw
  /\ tok["vault_y"] > PreTok("vault_y")
  /\ tok["vault_x"] < PreTok("vault_x")

\* C18: after every successful Initialize the pool record has
\* lifecycle_state = Initialized and its seed, authority, mint_x, mint_y,
\* fee_bps and signing_bump equal the request's fields, and the LP mint
\* exists with zero supply, 6 decimals, no freeze authority and mint
\* authority equal to the pool-config address derived from the "config"
\* seed tuple of the request.
C18_InitializeWrites ==
  (last.op = "Initialize" /\ last.res.ok) =>
    /\ last.pre.config = NoConfigAccount
    /\ config.data_len = ConfigLEN
    /\ config.owner = ProgramID
    /\ state(config.data) = Initialized
    /\ seed(config.data) = last.data.seed
    /\ config.data.authority = last.data.authority
    /\ config.data.mint_x = last.data.mint_x
    /\ config.data.mint_y = last.data.mint_y
    /\ fee(config.data) = last.data.fee
    /\ config_bump(config.data) = last.data.config_bump
    /\ mint_lp.data_len = MintLEN
    /\ mint_lp.owner = TokenProgramID
    /\ mint_lp.is_initialized
    /\ mint_lp.supply = 0
    /\ mint_lp.decimals = 6
    /\ mint_lp.freeze_authority = NoAddress
    /\ mint_lp.mint_authority =
         DeriveAddress(ConfigSeeds(to_le_bytes(last.data.seed, 8),
                                   last.data.mint_x, last.data.mint_y,
                                   last.data.config_bump), ProgramID)

\* An Initialize with a non-zero fee and an authority has succeeded.
C18_Witness ==
  /\ last.op = "Initialize" /\ last.res.ok
  /\ last.data.fee > 0
  /\ last.data.authority # DefaultAddress
  /\ Len(last.calls) = 3
  /\ mint_lp.is_initialized

\* C19: after a failed Initialize (in particular one with fee_bps >= 10000,
\* which fails in set_inner after the pool account was created and the
\* lifecycle state, seed, authority and mints were written, and one whose
\* LP-mint creation or initialization fails after the record was written)
\* no pool account, no record field and no LP mint created by that
\* invocation exists.
C19_FailedInitializeLeavesNothing ==
  last.op = "Initialize" =>
    /\ last.data.fee >= 10000 => ~last.res.ok
    /\ last.res.at \in {"create_mint", "initialize_mint"} =>
         (~last.res.ok /\ load(last.work.config).ok)
    /\ (~last.handler.ok \/ ~last.res.ok) =>
         /\ ~last.res.ok
         /\ Unchanged
         /\ last.pre.config = NoConfigAccount =>
              (config.data_len = 0 /\ config.data = ZeroConfig)
         /\ last.pre.mint_lp = NoMintAccount =>
              (mint_lp.data_len = 0 /\ ~mint_lp.is_initialized)

\* An Initialize with fee 10000 failed in set_inner after it had created
\* the pool account and written state, seed, authority and mints.
C19_Witness ==
  /\ last.op = "Initialize"
  /\ last.data.fee >= 10000
  /\ last.res.at = "set_fee"
  /\ last.calls = <<Call("CreateAccount", User, "config", ConfigLEN, TRUE)>>
  /\ state(last.work.config.data) = Initialized
  /\ seed(last.work.config.data) = last.data.seed
  /\ last.work.config.data.authority = last.data.authority
  /\ last.work.config.data.mint_x = last.data.mint_x
  /\ config = NoConfigAccount
  /\ mint_lp = NoMintAccount

\* C20: for every short-form Initialize payload p (76 bytes, no authority)
\* decoding p yields a request equal, field by field, to decoding the
\* long-form payload p followed by 32 zero bytes, and the decoder reads no
\* byte beyond the 76 supplied.
C20_ShortFormIsZeroPadded ==
  (last.op = "Initialize_try_from" /\ last.data.len = INITIALIZE_DATA_LEN) =>
    LET p == SubSeq(last.data.mem, 1, last.data.len)
        long == InitializeInstructionData_try_from(
                  INITIALIZE_DATA_LEN_WITH_AUTHORITY, p \o Zeros(32))
        short == last.work
    IN /\ short.res.ok
       /\ long.res.ok
       /\ short.data.seed = long.data.seed
       /\ short.data.fee = long.data.fee
       /\ short.data.mint_x = long.data.mint_x
       /\ short.data.mint_y = long.data.mint_y
       /\ short.data.config_bump = long.data.config_bump
       /\ short.data.lp_bump = long.data.lp_bump
       /\ short.data.authority = long.data.authority
       /\ short.data.authority = Zeros(32)
       /\ short.data.mint_x = SubSeq(p, 11, 42)
       /\ short.read <= Len(p)

\* A short-form payload followed in memory by non-zero bytes is decoded:
\* a two-byte seed, fee 10000, and an all-zero authority.
C20_Witness ==
  /\ last.op = "Initialize_try_from"
  /\ last.data.len = INITIALIZE_DATA_LEN
  /\ last.data.mem[INITIALIZE_DATA_LEN + 1] # 0
  /\ last.res.ok
  /\ last.work.data.seed = 258
  /\ last.work.data.fee = 10000
  /\ last.work.data.authority = Zeros(32)

\* The payload lengths the interface accepts for each discriminator.
AcceptedLens(disc) ==
  CASE disc = 0 -> {INITIALIZE_DATA_LEN_WITH_AUTHORITY, INITIALIZE_DATA_LEN}
    [] disc \in {1, 2} -> {DepositInstructionData_LEN}
    [] OTHER -> {SwapInstructionData_LEN}

\* C21: for every opcode a payload whose length is not one of the opcode's
\* accepted lengths (Initialize 108 or 76, Deposit and Withdraw 32, Swap 25)
\* fails with a decode error, a longer payload included. The code accepts
\* Deposit, Withdraw and Swap payloads longer than the struct.
C21_OnlyAcceptedLengths ==
  (last.op = "try_from" /\ last.data.disc \in 0..3
     /\ last.data.n >= Arity(last.data.disc)) =>
    /\ last.res.ok <=> last.data.len \in AcceptedLens(last.data.disc)
    /\ ~last.res.ok => last.res.err = "InvalidInstructionData"

\* C22: a request that supplies fewer accounts than its operation's arity
\* (Initialize 3, Deposit 9, Withdraw 9, Swap 7) is rejected with
\* NotEnoughAccountKeys before the payload is decoded (no payload byte is
\* read, whatever the payload), and extra trailing accounts do not change
\* the outcome of an otherwise identical request.
C22_MissingAccounts ==
  (last.op = "try_from" /\ last.data.disc \in 0..3) =>
    /\ last.data.n < Arity(last.data.disc) =>
         /\ ~last.res.ok
         /\ last.res.err = "NotEnoughAccountKeys"
         /\ last.work.read = 0
    /\ last.data.n > Arity(last.data.disc) =>
         last.work = dispatch(Arity(last.data.disc), last.data.len + 1,
                              <<last.data.disc>> \o last.data.mem, last.data.ub)
    /\ last.res.err = "NotEnoughAccountKeys" =>
         last.data.n < Arity(last.data.disc)

\* A Deposit with eight accounts and a payload that is too short as well:
\* the accounts error is the one reported.
C22_Witness ==
  /\ last.op = "try_from"
  /\ last.data.disc = 1
  /\ last.data.n = 8
  /\ last.data.len = DepositInstructionData_LEN - 1
  /\ last.res.err = "NotEnoughAccountKeys"

\* C23: in every reachable state every existing pool record has
\* fee_bps < 10000 and lifecycle_state within 0..3, whatever sequence of
\* Initialize, Deposit, Withdraw, Swap, set_state and set_fee calls,
\* successful or failed, produced it.
C23_RecordInvariant ==
  config.data_len # 0 =>
    /\ fee(config.data) < 10000
    /\ state(config.data) \in
         {Uninitialized, Initialized, Disabled, WithdrawOnly}

\* A set_state(255) refused on a record that earlier set_state and set_fee
\* calls had changed.
C23_Witness ==
  /\ last.op = "set_state"
  /\ last.data = 255
  /\ ~last.res.ok
  /\ load(config).ok
  /\ state(config.data) = Disabled
  /\ fee(config.data) = 0

C25_CreatedOnce ==
  (last.op = "Initialize" /\ last.pre.config.data_len # 0) =>
    /\ ~last.res.ok
    /\ last.res.at = "create_config"
    /\ last.calls = <<Call("CreateAccount", User, "config", ConfigLEN, FALSE)>>
    /\ config = last.pre.config
    /\ mint_lp = last.pre.mint_lp
    /\ Unchanged

\* A second Initialize, with the very request that created the pool, fails
\* on a pool that holds liquidity.
C25_Witness ==
  /\ last.op = "Initialize"
  /\ load(last.pre.config).ok
  /\ PreSupply > 0
  /\ seed(last.pre.config.data) = last.data.seed
  /\ last.data.fee < 10000
  /\ last.data.config_bump = Pool.config_bump
  /\ last.data.lp_bump = Pool.lp_bump
  /\ ~last.res.ok
  /\ mint_lp.supply = PreSupply

\* The guards' conditions, read from the request and the state before it.
Expired == last.now > last.data.expiration
PreLoaded == load(last.pre.config).ok
Disallowed ==
  IF last.op = "Withdraw" THEN PreState = Disabled ELSE PreState # Initialized

\* C26: in Deposit, Withdraw and Swap the guards are evaluated in the order
\* expiration, pool-record load and lifecycle state, amount computation,
\* slippage, and the first failing guard alone determines the error: an
\* expired request aimed at a pool in a disallowed state reports the
\* expiration error, and an unexpired request in a disallowed state reports
\* the lifecycle error before any amount is computed or compared.
C26_GuardOrder ==
  last.op \in Timed =>
    /\ Expired =>
         (last.res.at = "expiration" /\ last.res.err = "InvalidArgument")
    /\ (~Expired /\ ~PreLoaded) => last.res.at = "load"
    /\ (~Expired /\ PreLoaded /\ Disallowed) =>
         /\ last.res.at = "lifecycle"
         /\ last.res.err = "InvalidAccountData"
         /\ ~last.curve.called
         /\ last.calls = <<>>
    /\ last.res.at \in {"curve", "slippage"} =>
         (~Expired /\ PreLoaded /\ ~Disallowed)
    /\ last.res.at = "slippage" =>
         (last.curve.called => last.curve.out.ok)
    /\ ~last.res.ok => last.handler = last.res

\* An expired Deposit aimed at a Disabled pool reports the expiration.
C26_Witness ==
  /\ last.op = "Deposit"
  /\ Expired
  /\ PreLoaded
  /\ PreState = Disabled
  /\ last.res.at = "expiration"

\* C27: Deposit, Withdraw and Swap fail, invoking no transfer, mint or
\* burn, whenever the supplied pool-config account's data length differs
\* from the record size or its owner is not this program, the length being
\* checked before the owner; load_mut_unchecked rejects a wrong-length
\* account but accepts any owner.
C27_LoadChecks ==
  /\ last.op \in Timed =>
       /\ ( \/ last.pre.config.data_len # ConfigLEN
            \/ last.pre.config.owner # ProgramID )
          => (~last.res.ok /\ last.calls = <<>> /\ ~last.curve.called
              /\ Unchanged)
       /\ (~Expired /\ last.pre.config.data_len # ConfigLEN) =>
            (last.res.at = "load" /\ last.res.err = "InvalidAccountData")
       /\ ( /\ ~Expired
            /\ last.pre.config.data_len = ConfigLEN
            /\ last.pre.config.owner # ProgramID )
          => (last.res.at = "load" /\ last.res.err = "InvalidAccountOwner")
       /\ last.res.at = "load" =>
            ( \/ last.pre.config.data_len # ConfigLEN
              \/ last.pre.config.owner # ProgramID )
  /\ last.op = "load_mut_unchecked" =>
       /\ last.res.ok <=> last.pre.config.data_len = ConfigLEN
       /\ ~last.res.ok => last.res.err = "InvalidAccountData"

\* A Withdraw against a record of the right length and valid contents that
\* another program owns, with liquidity in the vaults, is refused.
C27_Witness ==
  /\ last.op = "Withdraw"
  /\ ~Expired
  /\ last.pre.config.data_len = ConfigLEN
  /\ last.pre.config.owner = TokenProgramID
  /\ PreState = Initialized
  /\ PreTok("vault_x") > 0
  /\ last.data.amount = PreSupply
  /\ last.res.err = "InvalidAccountOwner"

\* C28: the signer seed tuple Deposit, Withdraw and Swap pass to the
\* signing primitive is ("config", seed as 8 little-endian bytes, mint_x,
\* mint_y, signing_bump) read from the pool record, and it equals, element
\* by element, the tuple of the Initialize that created the record (the one
\* the pool-config address derives from), after any sequence of operations.
C28_SignerSeeds ==
  /\ (last.op \in Timed /\ PreLoaded) =>
       LET cfg == last.pre.config.data
           passed == RecordSeeds(cfg)
       IN /\ passed = <<"config", to_le_bytes(seed(cfg), 8), cfg.mint_x,
                        cfg.mint_y, config_bump(cfg)>>
          /\ passed = <<"config", to_le_bytes(Pool.seed, 8), MintX, MintY,
                        Pool.config_bump>>
          /\ DeriveAddress(passed, ProgramID) = ConfigAddress
          /\ \A i \in CallsOf("MintTo") : last.calls[i].ok
  /\ (last.op = "Initialize" /\ last.res.ok) =>
       RecordSeeds(config.data) =
         <<"config", to_le_bytes(last.data.seed, 8), last.data.mint_x,
           last.data.mint_y, last.data.config_bump>>

\* A Withdraw signs its vault transfers after set_state and set_fee calls
\* have changed the record.
C28_Witness ==
  /\ last.op = "Withdraw" /\ last.res.ok
  /\ PreState = Initialized
  /\ fee(last.pre.config.data) = 0
  /\ last.calls[2].from = "vault_x" /\ last.calls[2].ok
  /\ last.calls[2].amount > 0

\* C29: Deposit, Withdraw and Swap, whether they succeed or fail, leave
\* every field of the pool record unchanged; hence under any sequence of
\* the four processors a created pool stays in lifecycle_state Initialized
\* with its creation-time fee.
C29_RecordFrame ==
  /\ last.op \in Timed =>
       (config = last.pre.config /\ last.work.config = last.pre.config)
  /\ (last.op = "Initialize" /\ last.pre.config.data_len # 0) =>
       config = last.pre.config
  /\ load(config).ok =>
       /\ state(config.data) = Initialized
       /\ fee(config.data) \in {d.fee : d \in InitializeData}
       /\ fee(config.data) < 10000

\* A Swap whose input transfer succeeded and whose output transfer failed
\* has left the record as it was.
C29_Witness ==
  /\ last.op = "Swap"
  /\ Len(last.calls) = 2
  /\ last.calls[1].ok /\ last.calls[1].amount > 0
  /\ ~last.calls[2].ok
  /\ state(config.data) = Initialized
  /\ fee(config.data) = 9999
  /\ last.work.config = last.pre.config

\* C30: every successful Deposit and Swap credits its inflow to, and
\* computes its amounts from, the vaults of the pool-config account of the
\* same invocation: nobody obtains minted LP or a swap payout while the
\* tokens paid go to, or the reserves are read from, a caller-chosen account
\* that is not the pool's vault. The code takes the vault accounts from the
\* request without checking them.
C30_PoolVaultsOnly ==
  ( /\ last.op \in {"Deposit", "Swap"}
    /\ last.res.ok
    /\ \A i \in DOMAIN last.calls : last.calls[i].amount > 0 ) =>
    /\ \A i \in CallsOf("Transfer") :
         last.calls[i].from \in {"user_x", "user_y"} =>
           (last.calls[i].to \in {"vault_x", "vault_y"}
            /\ TokOwner(last.calls[i].to) = ConfigAddress)
    /\ last.curve.called =>
         /\ last.curve.args[1] = PreTok("vault_x")
         /\ last.curve.args[2] = PreTok("vault_y")
    /\ tok["alt_x"] = PreTok("alt_x")
    /\ tok["alt_y"] = PreTok("alt_y")

\* C31: every successful Withdraw that pays out of the pool's vaults burns
\* tokens of the pool's own LP mint, the one the pool's Initialize created,
\* and computes the payout from that mint's supply: nobody receives X or Y
\* from the vaults by supplying and burning tokens of another mint that the
\* caller chose. The code takes the mint account from the request without
\* checking it.
C31_PoolMintOnly ==
  ( /\ last.op = "Withdraw"
    /\ last.res.ok
    /\ \E i \in CallsOf("Transfer") : last.calls[i].amount > 0 ) =>
      /\ \A i \in CallsOf("Burn") :
           /\ last.calls[i].from = "user_lp"
           /\ last.calls[i].to = "mint_lp"
      /\ mint_lp.supply = PreSupply - last.data.amount
      /\ mint_alt = last.pre.mint_alt
      /\ IF last.curve.called
           THEN last.curve.args[3] = PreSupply
           ELSE last.data.amount = PreSupply

Total(w, mint) ==
  LET accts == {a \in TokenAccounts : TokMint(a) = mint}
      RECURSIVE Sum(_)
      Sum(S) == IF S = {} THEN 0
                ELSE LET a == CHOOSE b \in S : TRUE
                     IN w.tok[a] + Sum(S \ {a})
  IN Sum(accts)

\* C33: over any sequence of Initialize, Deposit, Withdraw and Swap
\* invocations, the vault balance plus the users' balances of X is
\* constant, and so is that of Y; no balance is ever negative; the LP supply
\* equals the sum of the users' LP balances; and the LP supply changes only
\* by +amount on a successful Deposit and by -amount on a successful
\* Withdraw.
C33_Conservation ==
  /\ Total(World, MintX) = MaxBal
  /\ Total(World, MintY) = MaxBal
  /\ \A a \in TokenAccounts : tok[a] >= 0
  /\ mint_lp.supply >= 0
  /\ mint_lp.supply = Total(World, MintLpAddress)
  /\ last.op \in Processors =>
       /\ Total(World, MintX) = Total(last.pre, MintX)
       /\ Total(World, MintY) = Total(last.pre, MintY)
       /\ mint_lp.supply - PreSupply =
            CASE last.op = "Deposit" /\ last.res.ok -> last.data.amount
              [] last.op = "Withdraw" /\ last.res.ok -> 0 - last.data.amount
              [] OTHER -> 0

\* A Withdraw of part of the supply has paid out of both vaults.
C33_Witness ==
  /\ last.op = "Withdraw" /\ last.res.ok
  /\ last.data.amount = 1 /\ PreSupply = 2
  /\ mint_lp.supply = 1 /\ tok["user_lp"] = 1
  /\ tok["vault_x"] < PreTok("vault_x")
  /\ tok["user_x"] > PreTok("user_x")
  /\ tok["vault_y"] < PreTok("vault_y")
====
